---- MODULE Spec2Model ----
(***************************************************************************)
(* Model of kagwave/vision_middleware:                                     *)
(*   - the pose/mask join (processPoseEstimationTag, poseEstimationTag.ts) *)
(*   - the service lifecycle (class Service, Service.ts)                   *)
(***************************************************************************)
EXTENDS Integers, Sequences, FiniteSets, TLC

\* ------------------------------------------------------------------------
\* Bounds
\* ------------------------------------------------------------------------
\* number of handler invocations (submits) in one behaviour
MaxCalls == 3

\* ------------------------------------------------------------------------
\* Values.  An optional request field is a sequence of length <= 1:
\* <<>> is a field the request does not have (JavaScript undefined).
\* ------------------------------------------------------------------------
Null == "<null>"

K1 == [videoUUID |-> <<"v1">>, frameNumber |-> <<10>>, instanceID |-> <<"a">>]
K2 == [videoUUID |-> <<"v1">>, frameNumber |-> <<10>>, instanceID |-> <<"b">>]
KBad == [videoUUID |-> <<>>, frameNumber |-> <<10>>, instanceID |-> <<"a">>]

Keys == {K1, K2, KBad}

\* the deliveries a behaviour draws from: two tags for one key, so that a
\* redelivery can differ from the stored payload, and a different mask per key
PoseRequests ==
  { [key |-> K1, payload |-> "T1"], [key |-> K1, payload |-> "T2"],
    [key |-> K2, payload |-> "T1"], [key |-> KBad, payload |-> "T1"] }
MaskRequests ==
  { [key |-> K1, payload |-> "M1"], [key |-> K2, payload |-> "M2"],
    [key |-> KBad, payload |-> "M1"] }

\* `${x}` of a string field / of a number field
StrOf(f) == IF f = <<>> THEN "undefined" ELSE f[1]
NumOf(f) == IF f = <<>> THEN "undefined" ELSE ToString(f[1])

\* const cacheKey = `${videoUUID}:${frameNumber}:${instanceID}`
cacheKey(k) ==
  StrOf(k.videoUUID) \o ":" \o NumOf(k.frameNumber) \o ":" \o StrOf(k.instanceID)

\* a Correlation Key is well formed when none of its components is missing
WellFormed(k) == k.videoUUID # <<>> /\ k.frameNumber # <<>> /\ k.instanceID # <<>>

VARIABLES
  poseCache,   \* redis hash 'pose_estimation_cache': field -> value
  maskCache,   \* redis hash 'segmentation_mask_cache': field -> value
  calls,       \* the handler invocations, in the order they were started
  expired,     \* fields of maskCache that the store's TTL has removed
  hasProducer, \* Service.producer is set
  publish,     \* the third argument the Consumer was constructed with
  redis,       \* state of the redisClient connection
  listener,    \* state of Service.server
  producer,    \* state of Service.producer
  consumer,    \* state of Service.consumer
  startPc,     \* position of start()
  startResult, \* how the promise of start() settled
  stopPc,      \* position of stop()
  attempted,   \* teardown steps stop() has invoked
  stopFailed,  \* teardown steps that rejected
  handlerSaw   \* states of the cache connection at handler dispatches

jvars == <<poseCache, maskCache, calls, expired>>

svars == <<hasProducer, publish, redis, listener, producer, consumer,
           startPc, startResult, stopPc, attempted, stopFailed, handlerSaw>>

vars == <<poseCache, maskCache, calls, expired,
          hasProducer, publish, redis, listener, producer, consumer,
          startPc, startResult, stopPc, attempted, stopFailed, handlerSaw>>

\* ------------------------------------------------------------------------
\* Redis hash commands
\* ------------------------------------------------------------------------
\* EXISTS key: a hash exists while it has at least one field
exists(hash) == DOMAIN hash # {}

\* HGET key field: the value, or null when the field is not there
hGet(hash, field) == IF field \in DOMAIN hash THEN hash[field] ELSE Null

\* HSET key field value: creates or overwrites the field
hSet(hash, field, value) ==
  [f \in DOMAIN hash \cup {field} |-> IF f = field THEN value ELSE hash[f]]

\* removal of one field
hDel(hash, field) == [f \in DOMAIN hash \ {field} |-> hash[f]]

\* ------------------------------------------------------------------------
\* Handler invocations.  A call record keeps the request, the position of
\* the invocation, what it returned (kind, obj) and, for the properties, the
\* branch it took (path), the calls that had returned when it was made
\* (after) and the fields that had expired by then (late).
\* ------------------------------------------------------------------------
Done(i) == calls[i].pc = "done"
DoneSet == {i \in 1..Len(calls) : Done(i)}

NewCall(variant, r, pc, kind, obj, path) ==
  [variant |-> variant, key |-> r.key, payload |-> r.payload, pc |-> pc,
   kind |-> kind, obj |-> obj, path |-> path,
   after |-> DoneSet, late |-> cacheKey(r.key) \in expired]

Finish(i, kind, obj, path) ==
  calls' = [calls EXCEPT ![i].pc = "done", ![i].kind = kind, ![i].obj = obj,
                         ![i].path = path]

\* lines 7-13: processPoseEstimationTag(request) builds cacheKey and issues
\* redisClient.exists(segmentationMaskCacheKey); the command runs in the
\* order it was issued, so the call and its first command are one step
PoseSubmit(r) ==
  /\ Len(calls) < MaxCalls
  /\ calls' = Append(calls,
       NewCall("pose", r, IF exists(maskCache) THEN "hGet" ELSE "hSet",
               "none", <<>>, "none"))
  /\ UNCHANGED <<poseCache, maskCache, expired>>
  /\ UNCHANGED svars

\* lines 13, 32-34: exists rejects; the catch logs, the function returns
\* undefined
PoseSubmitCatch(r) ==
  /\ Len(calls) < MaxCalls
  /\ calls' = Append(calls, NewCall("pose", r, "done", "void", <<>>, "catch"))
  /\ UNCHANGED <<poseCache, maskCache, expired>>
  /\ UNCHANGED svars

\* lines 15-18: hSet(poseEstimationCacheKey, cacheKey, poseEstimationTag); return
PoseStore(i) ==
  /\ calls[i].variant = "pose" /\ calls[i].pc = "hSet"
  /\ poseCache' = hSet(poseCache, cacheKey(calls[i].key), calls[i].payload)
  /\ Finish(i, "void", <<>>, "store")
  /\ UNCHANGED <<maskCache, expired>>
  /\ UNCHANGED svars

\* the object built at lines 22-28
instanceSynthesisRequest(k, tag, mask) ==
  [uuid |-> k.videoUUID, frameNumber |-> k.frameNumber, instanceId |-> k.instanceID,
   poseEstimationTag |-> tag, segmentationMask |-> mask]

\* PoseCombine that also stores the tag it combines
PoseCombineAndStore(i) ==
  /\ calls[i].variant = "pose" /\ calls[i].pc = "hGet"
  /\ poseCache' = hSet(poseCache, cacheKey(calls[i].key), calls[i].payload)
  /\ Finish(i, "object",
            <<instanceSynthesisRequest(calls[i].key, calls[i].payload,
                                       hGet(maskCache, cacheKey(calls[i].key)))>>,
            "combine")
  /\ UNCHANGED <<maskCache, expired>>
  /\ UNCHANGED svars

\* lines 19-31: hGet(segmentationMaskCacheKey, cacheKey); return the request
PoseCombine(i) ==
  /\ calls[i].variant = "pose" /\ calls[i].pc = "hGet"
  /\ Finish(i, "object",
            <<instanceSynthesisRequest(calls[i].key, calls[i].payload,
                                       hGet(maskCache, cacheKey(calls[i].key)))>>,
            "combine")
  /\ UNCHANGED <<poseCache, maskCache, expired>>
  /\ UNCHANGED svars

\* lines 17/21, 32-34: hSet or hGet rejects; the catch logs and the function
\* returns undefined
PoseCatch(i) ==
  /\ calls[i].variant = "pose" /\ calls[i].pc \in {"hSet", "hGet"}
  /\ Finish(i, "void", <<>>, "catch")
  /\ UNCHANGED <<poseCache, maskCache, expired>>
  /\ UNCHANGED svars

\* ------------------------------------------------------------------------
\* The segmentation-mask side of the join (submit of a SegmentationMask:
\* getAndDelete of the pose slot, then createIfAbsent of the mask slot) and
\* the store's expiry of mask slots.  The pose handler sets no time-to-live
\* on what it stores, so pose slots do not expire.
\* ------------------------------------------------------------------------
\* Cache Store getAndDelete(pose, key) found the pose slot and there is no
\* mask slot for the key: Combined
MaskCombine(r) ==
  /\ Len(calls) < MaxCalls
  /\ WellFormed(r.key)
  /\ cacheKey(r.key) \in DOMAIN poseCache
  /\ cacheKey(r.key) \notin DOMAIN maskCache
  /\ calls' = Append(calls,
       NewCall("mask", r, "done", "Combined",
               <<instanceSynthesisRequest(r.key, poseCache[cacheKey(r.key)],
                                          r.payload)>>, "combine"))
  /\ poseCache' = hDel(poseCache, cacheKey(r.key))
  /\ UNCHANGED <<maskCache, expired>>
  /\ UNCHANGED svars

\* the pose slot is there and so is a mask slot for the key: a duplicate
\* arrival, DuplicateIgnored and the state is left unchanged
MaskDuplicate(r) ==
  /\ Len(calls) < MaxCalls
  /\ WellFormed(r.key)
  /\ cacheKey(r.key) \in DOMAIN poseCache
  /\ cacheKey(r.key) \in DOMAIN maskCache
  /\ calls' = Append(calls,
       NewCall("mask", r, "done", "DuplicateIgnored", <<>>, "duplicate"))
  /\ UNCHANGED <<poseCache, maskCache, expired>>
  /\ UNCHANGED svars

\* getAndDelete fails: Error(StoreUnavailable), nothing read or written
MaskSubmitUnavailable(r) ==
  /\ Len(calls) < MaxCalls
  /\ WellFormed(r.key)
  /\ calls' = Append(calls,
       NewCall("mask", r, "done", "Error(StoreUnavailable)", <<>>, "catch"))
  /\ UNCHANGED <<poseCache, maskCache, expired>>
  /\ UNCHANGED svars

\* getAndDelete(pose, key) found nothing: go on to createIfAbsent
MaskSubmit(r) ==
  /\ Len(calls) < MaxCalls
  /\ WellFormed(r.key)
  /\ cacheKey(r.key) \notin DOMAIN poseCache
  /\ calls' = Append(calls, NewCall("mask", r, "create", "none", <<>>, "none"))
  /\ UNCHANGED <<poseCache, maskCache, expired>>
  /\ UNCHANGED svars

\* a malformed Correlation Key: Error(InvalidKey) before any store operation
MaskInvalidKey(r) ==
  /\ Len(calls) < MaxCalls
  /\ ~WellFormed(r.key)
  /\ calls' = Append(calls,
       NewCall("mask", r, "done", "Error(InvalidKey)", <<>>, "invalid"))
  /\ UNCHANGED <<poseCache, maskCache, expired>>
  /\ UNCHANGED svars

\* createIfAbsent(mask, key, value): Stored, or DuplicateIgnored when the
\* slot is already there
MaskCreate(i) ==
  /\ calls[i].variant = "mask" /\ calls[i].pc = "create"
  /\ LET f == cacheKey(calls[i].key) IN
       IF f \in DOMAIN maskCache
       THEN /\ Finish(i, "DuplicateIgnored", <<>>, "duplicate")
            /\ UNCHANGED maskCache
       ELSE /\ Finish(i, "Stored", <<>>, "store")
            /\ maskCache' = hSet(maskCache, f, calls[i].payload)
  /\ UNCHANGED <<poseCache, expired>>
  /\ UNCHANGED svars

\* createIfAbsent fails: Error(StoreUnavailable), nothing written
MaskUnavailable(i) ==
  /\ calls[i].variant = "mask" /\ calls[i].pc = "create"
  /\ Finish(i, "Error(StoreUnavailable)", <<>>, "catch")
  /\ UNCHANGED <<poseCache, maskCache, expired>>
  /\ UNCHANGED svars

\* the Cache Store's time-to-live removes a mask Pending Slot
ExpireMask(f) ==
  /\ f \in DOMAIN maskCache
  /\ maskCache' = hDel(maskCache, f)
  /\ expired' = expired \cup {f}
  /\ UNCHANGED <<poseCache, calls>>
  /\ UNCHANGED svars

\* ------------------------------------------------------------------------
\* Service lifecycle (Service.ts)
\* ------------------------------------------------------------------------
\* constructor, lines 28-42.  configureKafka creates the producer only when
\* kafkaOptions.topics.producer is set and hands the consumer the bound send
\* or null; configureRedis is called without await, so the constructor
\* returns with redisClient.connect() issued and not yet settled.
configureKafka(withProducer) ==
  /\ hasProducer = withProducer
  /\ publish = IF withProducer THEN "send" ELSE "null"
  /\ producer = "NotStarted"
  /\ consumer = "NotStarted"

Constructed(withProducer) ==
  /\ configureKafka(withProducer)
  /\ redis = "Starting"
  /\ listener = "NotStarted"
  /\ startPc = "idle" /\ startResult = "none"
  /\ stopPc = "idle" /\ attempted = {} /\ stopFailed = {}
  /\ handlerSaw = {}

\* configureRedis, lines 76-79: redisClient.connect() resolves
RedisConnected ==
  /\ redis = "Starting"
  /\ redis' = "Running"
  /\ UNCHANGED <<hasProducer, publish, listener, producer, consumer, startPc,
                 startResult, stopPc, attempted, stopFailed, handlerSaw>>
  /\ UNCHANGED jvars

\* configureRedis, lines 80-82: connect() rejects, the catch logs the error
RedisConnectFailed ==
  /\ redis = "Starting"
  /\ redis' = "Failed"
  /\ UNCHANGED <<hasProducer, publish, listener, producer, consumer, startPc,
                 startResult, stopPc, attempted, stopFailed, handlerSaw>>
  /\ UNCHANGED jvars

\* StartListen that goes on to consumer.start() without starting the producer
StartListenConsumerFirst ==
  /\ startPc = "idle" /\ stopPc = "idle"
  /\ listener' = "Starting"
  /\ startPc' = "consumer"
  /\ UNCHANGED <<hasProducer, publish, redis, producer, consumer,
                 startResult, stopPc, attempted, stopFailed, handlerSaw>>
  /\ UNCHANGED jvars

\* start(), lines 98-107: server.listen(port, cb), then producer.start() if
\* there is a producer, else consumer.start()
StartListen ==
  /\ startPc = "idle" /\ stopPc = "idle"
  /\ listener' = "Starting"
  /\ startPc' = IF hasProducer THEN "producer" ELSE "consumer"
  /\ UNCHANGED <<hasProducer, publish, redis, producer, consumer,
                 startResult, stopPc, attempted, stopFailed, handlerSaw>>
  /\ UNCHANGED jvars

\* the server emits 'listening' (the callback of line 102 runs)
ListenerUp ==
  /\ listener = "Starting"
  /\ listener' = "Running"
  /\ UNCHANGED <<hasProducer, publish, redis, producer, consumer, startPc,
                 startResult, stopPc, attempted, stopFailed, handlerSaw>>
  /\ UNCHANGED jvars

\* the server emits 'error' (port in use); start() does not see it
ListenerError ==
  /\ listener = "Starting"
  /\ listener' = "Failed"
  /\ UNCHANGED <<hasProducer, publish, redis, producer, consumer, startPc,
                 startResult, stopPc, attempted, stopFailed, handlerSaw>>
  /\ UNCHANGED jvars

\* line 107: await this.producer.start() resolves
ProducerStarted ==
  /\ startPc = "producer"
  /\ producer' = "Running"
  /\ startPc' = "consumer"
  /\ UNCHANGED <<hasProducer, publish, redis, listener, consumer,
                 startResult, stopPc, attempted, stopFailed, handlerSaw>>
  /\ UNCHANGED jvars

\* lines 107, 110-112: producer.start() rejects; the catch logs, start()
\* resolves
ProducerStartFailed ==
  /\ startPc = "producer"
  /\ producer' = "Failed"
  /\ startPc' = "done" /\ startResult' = "resolved"
  /\ UNCHANGED <<hasProducer, publish, redis, listener, consumer,
                 stopPc, attempted, stopFailed, handlerSaw>>
  /\ UNCHANGED jvars

\* line 108: await this.consumer.start() resolves; start() resolves
ConsumerStarted ==
  /\ startPc = "consumer"
  /\ consumer' = "Running"
  /\ startPc' = "done" /\ startResult' = "resolved"
  /\ UNCHANGED <<hasProducer, publish, redis, listener, producer,
                 stopPc, attempted, stopFailed, handlerSaw>>
  /\ UNCHANGED jvars

\* lines 108, 110-112: consumer.start() rejects; the catch logs, start()
\* resolves
ConsumerStartFailed ==
  /\ startPc = "consumer"
  /\ consumer' = "Failed"
  /\ startPc' = "done" /\ startResult' = "resolved"
  /\ UNCHANGED <<hasProducer, publish, redis, listener, producer,
                 stopPc, attempted, stopFailed, handlerSaw>>
  /\ UNCHANGED jvars

\* the running Consumer dispatches a message to a handler
HandlerRun ==
  /\ consumer = "Running"
  /\ handlerSaw' = handlerSaw \cup {redis}
  /\ UNCHANGED <<hasProducer, publish, redis, listener, producer, consumer,
                 startPc, startResult, stopPc, attempted, stopFailed>>
  /\ UNCHANGED jvars

\* StopClose that goes on to redisClient.disconnect() before the kafka
\* shutdowns
StopCloseCacheFirst ==
  /\ stopPc = "idle" /\ startPc \in {"idle", "done"}
  /\ listener' = IF listener \in {"Starting", "Running"} THEN "Stopped" ELSE listener
  /\ attempted' = attempted \cup {"listener"}
  /\ stopFailed' = IF listener \in {"Starting", "Running"} THEN stopFailed
                   ELSE stopFailed \cup {"listener"}
  /\ stopPc' = "redis"
  /\ UNCHANGED <<hasProducer, publish, redis, producer, consumer,
                 startPc, startResult, handlerSaw>>
  /\ UNCHANGED jvars

\* stop(), lines 115-123: server.close(cb), then producer.shutdown() if
\* there is a producer, else consumer.shutdown().  close() of a server that
\* is not listening reports the error to the callback and does not throw.
\* The caller invokes stop() on a service it has not started or whose
\* start() has settled.
StopClose ==
  /\ stopPc = "idle" /\ startPc \in {"idle", "done"}
  /\ listener' = IF listener \in {"Starting", "Running"} THEN "Stopped" ELSE listener
  /\ attempted' = attempted \cup {"listener"}
  /\ stopFailed' = IF listener \in {"Starting", "Running"} THEN stopFailed
                   ELSE stopFailed \cup {"listener"}
  /\ stopPc' = IF hasProducer THEN "producer" ELSE "consumer"
  /\ UNCHANGED <<hasProducer, publish, redis, producer, consumer,
                 startPc, startResult, handlerSaw>>
  /\ UNCHANGED jvars

\* line 123: await this.producer.shutdown() resolves
ProducerShutdown ==
  /\ stopPc = "producer"
  /\ attempted' = attempted \cup {"producer"}
  /\ producer' = "Stopped"
  /\ stopPc' = "consumer"
  /\ UNCHANGED <<hasProducer, publish, redis, listener, consumer,
                 startPc, startResult, stopFailed, handlerSaw>>
  /\ UNCHANGED jvars

\* lines 123, 130-132: producer.shutdown() rejects; the catch logs and
\* stop() resolves
ProducerShutdownFailed ==
  /\ stopPc = "producer"
  /\ attempted' = attempted \cup {"producer"}
  /\ stopFailed' = stopFailed \cup {"producer"}
  /\ stopPc' = "done"
  /\ UNCHANGED <<hasProducer, publish, redis, listener, producer, consumer,
                 startPc, startResult, handlerSaw>>
  /\ UNCHANGED jvars

\* line 124: await this.consumer.shutdown() resolves
ConsumerShutdown ==
  /\ stopPc = "consumer"
  /\ attempted' = attempted \cup {"consumer"}
  /\ consumer' = "Stopped"
  /\ stopPc' = "redis"
  /\ UNCHANGED <<hasProducer, publish, redis, listener, producer,
                 startPc, startResult, stopFailed, handlerSaw>>
  /\ UNCHANGED jvars

\* lines 124, 130-132: consumer.shutdown() rejects
ConsumerShutdownFailed ==
  /\ stopPc = "consumer"
  /\ attempted' = attempted \cup {"consumer"}
  /\ stopFailed' = stopFailed \cup {"consumer"}
  /\ stopPc' = "done"
  /\ UNCHANGED <<hasProducer, publish, redis, listener, producer, consumer,
                 startPc, startResult, handlerSaw>>
  /\ UNCHANGED jvars

\* lines 127-129: await redisClient.disconnect() resolves; return
RedisDisconnect ==
  /\ stopPc = "redis"
  /\ attempted' = attempted \cup {"cache"}
  /\ redis' = "Stopped"
  /\ stopPc' = "done"
  /\ UNCHANGED <<hasProducer, publish, listener, producer, consumer,
                 startPc, startResult, stopFailed, handlerSaw>>
  /\ UNCHANGED jvars

\* lines 127, 130-132: redisClient.disconnect() rejects
RedisDisconnectFailed ==
  /\ stopPc = "redis"
  /\ attempted' = attempted \cup {"cache"}
  /\ stopFailed' = stopFailed \cup {"cache"}
  /\ stopPc' = "done"
  /\ UNCHANGED <<hasProducer, publish, redis, listener, producer, consumer,
                 startPc, startResult, handlerSaw>>
  /\ UNCHANGED jvars

\* ------------------------------------------------------------------------
\* Specifications
\* ------------------------------------------------------------------------
JoinInit ==
  /\ poseCache = <<>>
  /\ maskCache = <<>>
  /\ calls = <<>>
  /\ expired = {}

\* the join: handlers of a constructed service working on an empty cache
Init == JoinInit /\ Constructed(TRUE)

Next ==
  \/ \E r \in PoseRequests : PoseSubmit(r)
  \/ \E r \in PoseRequests : PoseSubmitCatch(r)
  \/ \E i \in 1..Len(calls) : PoseStore(i)
  \/ \E i \in 1..Len(calls) : PoseCombine(i)
  \/ \E i \in 1..Len(calls) : PoseCatch(i)
  \/ \E r \in MaskRequests : MaskCombine(r)
  \/ \E r \in MaskRequests : MaskDuplicate(r)
  \/ \E r \in MaskRequests : MaskSubmitUnavailable(r)
  \/ \E r \in MaskRequests : MaskSubmit(r)
  \/ \E r \in MaskRequests : MaskInvalidKey(r)
  \/ \E i \in 1..Len(calls) : MaskCreate(i)
  \/ \E i \in 1..Len(calls) : MaskUnavailable(i)
  \/ \E f \in DOMAIN maskCache : ExpireMask(f)

Spec == Init /\ [][Next]_vars

\* a handler that awaits a redis command is resumed when the command settles
HandlerStep ==
  \E i \in 1..Len(calls) :
    PoseStore(i) \/ PoseCombine(i) \/ PoseCatch(i) \/ MaskCreate(i) \/ MaskUnavailable(i)

\* the store's time-to-live runs out
Expiry == \E f \in DOMAIN maskCache : ExpireMask(f)

\* the join with the progress the runtime and the store guarantee; the
\* deliveries themselves need never come
SpecLive == Init /\ [][Next]_vars /\ WF_vars(HandlerStep) /\ WF_vars(Expiry)

\* the lifecycle of a service constructed with or without a producer
InitSvc == JoinInit /\ \E withProducer \in BOOLEAN : Constructed(withProducer)

NextSvc ==
  \/ RedisConnected
  \/ RedisConnectFailed
  \/ StartListen
  \/ ListenerUp
  \/ ListenerError
  \/ ProducerStarted
  \/ ProducerStartFailed
  \/ ConsumerStarted
  \/ ConsumerStartFailed
  \/ HandlerRun
  \/ StopClose
  \/ ProducerShutdown
  \/ ProducerShutdownFailed
  \/ ConsumerShutdown
  \/ ConsumerShutdownFailed
  \/ RedisDisconnect
  \/ RedisDisconnectFailed

SpecSvc == InitSvc /\ [][NextSvc]_vars
\* ------------------------------------------------------------------------
\* Properties
\* ------------------------------------------------------------------------
CallIds == 1..Len(calls)
PoseCalls(k) == {i \in CallIds : calls[i].variant = "pose" /\ calls[i].key = k}
MaskCalls(k) == {i \in CallIds : calls[i].variant = "mask" /\ calls[i].key = k}

\* the call returned a Combined Event (the pose handler: the object)
ReturnsCombined(c) == c.pc = "done" /\ c.kind \in {"object", "Combined"}

\* the call returned without a store operation having failed
Succeeded(c) == c.pc = "done" /\ c.path # "catch"

\* what the caller of a call that has returned can tell from the value it
\* got.  processPoseEstimationTag returns an object or undefined, and
\* undefined is what its store branch returns.
Outcome(c) ==
  IF c.variant = "mask" THEN c.kind
  ELSE IF c.kind = "object" THEN "Combined" ELSE "Stored"

\* the call has issued a Cache Store command: processPoseEstimationTag
\* issues exists before anything else
IssuedStoreOp(c) == c.variant = "pose" \/ c.path # "invalid"

\* the namespaces that hold a Pending Slot for key k
Slots(k) ==
  {ns \in {"pose", "mask"} :
     cacheKey(k) \in DOMAIN (IF ns = "pose" THEN poseCache ELSE maskCache)}

\* C1: when one PoseTag(k) and one SegmentationMask(k) have been submitted,
\* one after the other or interleaved, and both calls have returned, exactly
\* one of the two returned Combined(k): not both and not neither.
C1_ExactlyOneCombined ==
  \A k \in Keys :
    \A i \in PoseCalls(k), j \in MaskCalls(k) :
      ( /\ WellFormed(k)
        /\ PoseCalls(k) = {i} /\ MaskCalls(k) = {j}
        /\ Succeeded(calls[i]) /\ Succeeded(calls[j])
        /\ cacheKey(k) \notin expired )
      => (ReturnsCombined(calls[i]) # ReturnsCombined(calls[j]))

\* C2: in every reachable state the number of Combined Events produced for
\* one Correlation Key, redeliveries included, is at most one.
C2_AtMostOneCombined ==
  \A k \in Keys :
    WellFormed(k) =>
      Cardinality({i \in CallIds : calls[i].key = k /\ ReturnsCombined(calls[i])}) <= 1

\* C3: a PoseTag submitted for k takes the combine path exactly when a mask
\* Pending Slot exists for the same key k; a pending mask of another key k'
\* does not make it combine, and the PoseTag is then stored instead.
C3_KeyScopedCombine ==
  [][\A r \in PoseRequests :
       (WellFormed(r.key) /\ PoseSubmit(r)) =>
         /\ (calls'[Len(calls')].pc = "hGet") = (cacheKey(r.key) \in DOMAIN maskCache)
         /\ (calls'[Len(calls')].pc = "hSet") = (cacheKey(r.key) \notin DOMAIN maskCache)
    ]_vars

\* C4: the same variant submitted twice for the same key, the second after
\* the first returned and no counterpart submitted for the key: the first
\* call yields Stored, the second DuplicateIgnored, and the Pending Slot
\* still holds the payload of the first.
C4_DuplicateIgnored ==
  \A k \in Keys :
    \A i \in PoseCalls(k), j \in PoseCalls(k) :
      ( /\ WellFormed(k)
        /\ PoseCalls(k) = {i, j} /\ MaskCalls(k) = {}
        /\ i \in calls[j].after
        /\ Succeeded(calls[i]) /\ Succeeded(calls[j]) )
      => /\ Outcome(calls[i]) = "Stored"
         /\ Outcome(calls[j]) = "DuplicateIgnored"
         /\ hGet(poseCache, cacheKey(k)) = calls[i].payload

\* C5: a Combined Event returned for key k carries the three components of
\* k, the payload of a PoseTag submitted for k and the payload of a
\* SegmentationMask submitted for k; its mask is never absent and never the
\* mask of another key.
C5_CombinedEventContents ==
  \A i \in CallIds :
    (WellFormed(calls[i].key) /\ ReturnsCombined(calls[i])) =>
      LET k == calls[i].key
          e == calls[i].obj[1]
      IN /\ e.uuid = k.videoUUID
         /\ e.frameNumber = k.frameNumber
         /\ e.instanceId = k.instanceID
         /\ e.poseEstimationTag \in {calls[j].payload : j \in PoseCalls(k)}
         /\ e.segmentationMask \in {calls[j].payload : j \in MaskCalls(k)}

\* C6: a submit during which a Cache Store operation fails returns
\* Error(StoreUnavailable), which is not the value a Stored call returns; it
\* creates no Pending Slot and returns no Combined Event.
C6_StoreUnavailable ==
  [][\A i \in 1..Len(calls') :
       ( /\ calls'[i].path = "catch"
         /\ (i > Len(calls) \/ calls[i].path # "catch") )
       => /\ Outcome(calls'[i]) = "Error(StoreUnavailable)"
          /\ Outcome(calls'[i]) # "Stored"
          /\ ~ReturnsCombined(calls'[i])
          /\ poseCache' = poseCache /\ maskCache' = maskCache
    ]_vars

\* C7: a submit with a malformed Correlation Key returns Error(InvalidKey)
\* and issues no Cache Store operation: nothing is read and nothing is
\* stored under the malformed key.
C7_InvalidKey ==
  \A i \in CallIds :
    ~WellFormed(calls[i].key) =>
      /\ ~IssuedStoreOp(calls[i])
      /\ calls[i].pc = "done"
      /\ Outcome(calls[i]) = "Error(InvalidKey)"
      /\ Slots(calls[i].key) = {}

\* C8: after only one variant has been submitted for k there is exactly one
\* Pending Slot for k until it expires; a counterpart submitted for k after
\* the slot expired yields Stored and not Combined.
C8_OneSlotUntilExpiry ==
  \A k \in Keys :
    WellFormed(k) =>
      /\ \A i \in CallIds :
           ( /\ PoseCalls(k) \cup MaskCalls(k) = {i}
             /\ Succeeded(calls[i])
             /\ cacheKey(k) \notin expired )
           => Cardinality(Slots(k)) = 1
      /\ \A i \in MaskCalls(k), j \in PoseCalls(k) :
           ( /\ MaskCalls(k) = {i} /\ PoseCalls(k) = {j}
             /\ calls[j].late
             /\ Succeeded(calls[j]) )
           => /\ Outcome(calls[j]) = "Stored"
              /\ ~ReturnsCombined(calls[j])

\* C9: in stop() a teardown step that fails does not abort the later ones:
\* once stop() has returned, a failed producer shutdown was followed by the
\* consumer shutdown and the cache disconnect, and a failed consumer
\* shutdown by the cache disconnect.
C9_StopBestEffort ==
  stopPc = "done" =>
    /\ "listener" \in stopFailed => {"consumer", "cache"} \subseteq attempted
    /\ "producer" \in stopFailed => {"consumer", "cache"} \subseteq attempted
    /\ "consumer" \in stopFailed => "cache" \in attempted

\* C10: the cache connection is established before start() starts the
\* listener, the producer or the consumer; when the connection fails none
\* of them is started and start() fails; no handler runs while the cache
\* connection is not Running.
C10_CacheBeforeSubsystems ==
  /\ ( /\ stopPc = "idle"
       /\ \/ listener # "NotStarted"
          \/ producer # "NotStarted"
          \/ consumer # "NotStarted" )
     => redis = "Running"
  /\ (stopPc = "idle" /\ redis = "Failed") => startResult # "resolved"
  /\ handlerSaw \subseteq {"Running"}
\* the overall Service State as far as the code gives one: the service is
\* Running once start() has settled normally and until stop() is called
ServiceState ==
  IF stopPc # "idle" THEN "Stopping"
  ELSE IF startPc = "idle" THEN "NotStarted"
  ELSE IF startPc # "done" THEN "Starting"
  ELSE IF startResult = "resolved" THEN "Running" ELSE "Failed"

\* C11: when the producer's or the consumer's start fails, the Service State
\* becomes Failed and start() surfaces the error: start() does not complete
\* normally after a subsystem failed to start.
C11_StartFailureSurfaced ==
  (stopPc = "idle" /\ (producer = "Failed" \/ consumer = "Failed")) =>
    /\ startResult # "resolved"
    /\ ServiceState = "Failed"

\* C13: the Service State is Running only when the listener, the consumer,
\* the cache connection and, when configured, the producer are Running; with
\* no producer configured the producer is still NotStarted then.
C13_RunningMeansAllRunning ==
  ServiceState = "Running" =>
    /\ listener = "Running"
    /\ consumer = "Running"
    /\ redis = "Running"
    /\ (hasProducer => producer = "Running")
    /\ (~hasProducer => producer = "NotStarted")

\* C14: a submit that returns Combined for key k consumes the counterpart's
\* Pending Slot: right after the call neither the pose nor the mask
\* namespace holds a slot for k.
C14_CombineConsumesSlot ==
  [][\A i \in 1..Len(calls') :
       ( /\ WellFormed(calls'[i].key)
         /\ ReturnsCombined(calls'[i])
         /\ (i > Len(calls) \/ ~ReturnsCombined(calls[i])) )
       => /\ cacheKey(calls'[i].key) \notin DOMAIN poseCache'
          /\ cacheKey(calls'[i].key) \notin DOMAIN maskCache'
    ]_vars

\* C15: after the Combined Event of key k was produced, a further PoseTag
\* submitted for k returns DuplicateIgnored: it does not return Combined and
\* creates no Pending Slot.
C15_CompletedKeyIgnored ==
  \A i \in CallIds, j \in CallIds :
    ( /\ WellFormed(calls[i].key)
      /\ calls[j].key = calls[i].key /\ calls[j].variant = "pose"
      /\ ReturnsCombined(calls[i])
      /\ i \in calls[j].after
      /\ Succeeded(calls[j]) )
    => /\ Outcome(calls[j]) = "DuplicateIgnored"
       /\ ~ReturnsCombined(calls[j])
       /\ calls[j].path # "store"

\* the two submissions of one join, one after the other, and nothing else
JoinedInOrder(first, second, k) ==
  /\ Len(calls) = 2
  /\ calls[1].variant = first /\ calls[2].variant = second
  /\ calls[1].key = k /\ calls[2].key = k /\ WellFormed(k)
  /\ Succeeded(calls[1]) /\ Succeeded(calls[2])
  /\ 1 \in calls[2].after
  /\ expired = {}

\* what the two submissions leave behind: the events returned and the cache
JoinResult == <<{calls[i].obj : i \in CallIds}, poseCache, maskCache>>

\* the result of PoseTag then SegmentationMask: the pose call stored and
\* returned nothing, the mask call returned the event and took the slot
PoseThenMaskResult(tag, mask, k) ==
  <<{<<>>, <<instanceSynthesisRequest(k, tag, mask)>>}, <<>>, <<>>>>

\* C16: the join is commutative in arrival order: PoseTag(k) then
\* SegmentationMask(k) and SegmentationMask(k) then PoseTag(k) produce the
\* same Combined Event and the same final cache state.
C16_Commutative ==
  \A k \in Keys :
    /\ JoinedInOrder("pose", "mask", k) =>
         JoinResult = PoseThenMaskResult(calls[1].payload, calls[2].payload, k)
    /\ JoinedInOrder("mask", "pose", k) =>
         JoinResult = PoseThenMaskResult(calls[2].payload, calls[1].payload, k)

\* C17: the publish capability handed to the Consumer is the Producer's send
\* when a Producer is configured and a callable no-op, not an absent value,
\* when none is.
C17_PublishCapability ==
  /\ hasProducer => publish = "send"
  /\ ~hasProducer => publish = "noop"
\* C12: stop() tears down in the order listener close, producer shutdown (if
\* there is a producer), consumer shutdown, cache disconnect: the cache is
\* not disconnected while the consumer or the producer is still Running.
C12_StopOrder ==
  /\ "producer" \in attempted => "listener" \in attempted
  /\ "consumer" \in attempted =>
       ("listener" \in attempted /\ (hasProducer => "producer" \in attempted))
  /\ "cache" \in attempted =>
       /\ "consumer" \in attempted
       /\ consumer # "Running" /\ producer # "Running"
  /\ redis = "Stopped" => (consumer # "Running" /\ producer # "Running")

\* a started service with a producer, whose handlers ran, fully stopped
C12_Witness ==
  /\ hasProducer /\ handlerSaw # {}
  /\ stopPc = "done" /\ attempted = {"listener", "producer", "consumer", "cache"}
  /\ listener = "Stopped" /\ producer = "Stopped" /\ consumer = "Stopped"
  /\ redis = "Stopped"

\* C19: in start() the listener is told to listen before the producer or the
\* consumer is started, and a configured producer has been started before the
\* consumer is: no handler is dispatched by a consumer whose producer was
\* never started.
C19_StartOrder ==
  /\ startPc # "idle" => listener # "NotStarted"
  /\ (startPc = "consumer" /\ hasProducer) => producer = "Running"
  /\ (consumer \in {"Running", "Failed"} /\ hasProducer) =>
       producer \in {"Running", "Stopped"}

\* the consumer of a service with a producer is running and has dispatched
C19_Witness ==
  /\ hasProducer /\ producer = "Running" /\ consumer = "Running"
  /\ startPc = "done" /\ handlerSaw # {}

\* C20: a PoseTag submit leaves the mask namespace and every other key's
\* pose slot unchanged and writes at most its own pose slot; on the combine
\* path, and when a store operation fails, it writes nothing.
C20_PoseWritesOwnSlotOnly ==
  [][\A i \in 1..Len(calls') :
       ( /\ calls'[i].variant = "pose"
         /\ (i > Len(calls) \/ calls[i] # calls'[i]) )
       => LET own == cacheKey(calls'[i].key) IN
          /\ maskCache' = maskCache
          /\ DOMAIN poseCache' \subseteq DOMAIN poseCache \cup {own}
          /\ \A f \in DOMAIN poseCache \ {own} :
               f \in DOMAIN poseCache' /\ poseCache'[f] = poseCache[f]
          /\ calls'[i].path # "store" => poseCache' = poseCache
    ]_vars

\* one PoseTag was stored next to another key's slots and one was combined
C20_Witness ==
  \E i \in CallIds, j \in CallIds :
    /\ calls[i].variant = "pose" /\ calls[i].path = "store"
    /\ calls[j].variant = "pose" /\ calls[j].path = "combine"
    /\ cacheKey(calls[i].key) \in DOMAIN poseCache
    /\ cacheKey(calls[j].key) \notin DOMAIN poseCache
    /\ exists(maskCache)
\* the fields of the well-formed keys
Fields == {cacheKey(k) : k \in {x \in Keys : WellFormed(x)}}

\* C18: every Pending Slot is eventually removed, consumed by the
\* counterpart's submit or expired by the store, also when the counterpart
\* never arrives.
C18_SlotsEventuallyRemoved ==
  \A f \in Fields :
    /\ (f \in DOMAIN poseCache) ~> (f \notin DOMAIN poseCache)
    /\ (f \in DOMAIN maskCache) ~> (f \notin DOMAIN maskCache)
====
